---- MODULE Spec2Model ----
(***************************************************************************)
(* RoadPayment (src/src/roadpayment/payment.py): the PaymentProcessor's    *)
(* in-memory ledger of customers, payments and refunds, its provider calls *)
(* and the lifecycle events it emits.                                      *)
(*                                                                         *)
(* Execution model.  create_payment and create_refund are coroutines of    *)
(* one event loop: each runs without interruption from one await to the    *)
(* next, and another coroutine can run only while the first is suspended   *)
(* in `await self.provider.charge/refund`.  Event handlers run inside      *)
(* _emit, in the middle of such a segment; `running` names the call whose  *)
(* segment is stopped in a handler, so that the state a handler observes   *)
(* is a state of the model and no coroutine is scheduled in it.  The       *)
(* synchronous operations (create_customer, add_payment_method) may be     *)
(* called from any thread, so add_payment_method, which takes no lock, is  *)
(* modelled statement by statement.                                        *)
(*                                                                         *)
(* Fields the modelled operations store and never read again (email, name, *)
(* description, reason, metadata of customers, plans and subscriptions,    *)
(* card details, the created_at of customers and refunds) are left out.    *)
(*                                                                         *)
(* Spec is the ledger of customers, payment methods, payments and refunds. *)
(* The other specifications run further operations of the same processor   *)
(* over the same state: SpecFair adds the scheduling of the event loop,    *)
(* SpecBilling the plans and subscriptions, SpecQuery list_payments under  *)
(* a clock that moves, SpecHooks the registration of event handlers.       *)
(***************************************************************************)
EXTENDS Integers, Sequences, FiniteSets, TLC

VARIABLES
    customers,    \* self.customers: id -> Customer
    payments,     \* self.payments: id -> Payment
    refunds,      \* self.refunds: id -> Refund
    events,       \* the _emit calls so far, by the id of the entity passed
    providerLog,  \* the provider.charge / provider.refund invocation of each call,
                  \* by the id of the entity the call made, and the provider's answer
    calls,        \* the calls in flight, by the id of the entity each one made
    running,      \* id of the payment whose call is stopped in a handler, or None
    returned,     \* the latest return (or raise) of an operation
    plans,        \* self.plans: id -> Plan
    subscriptions,\* self.subscriptions: id -> Subscription
    hooks,        \* self.hooks: event -> the handlers registered, in order
    lock,         \* self._lock: None when free, else the id its holder inserts
    clock,        \* what datetime.now() reads
    listed        \* the latest list_payments call: its argument and its result

vars == <<customers, payments, refunds, events, providerLog, calls, running, returned,
          plans, subscriptions, hooks, lock, clock, listed>>

\* the state that the operations on customers, payments and refunds leave alone
billing == <<plans, subscriptions, hooks, clock, listed>>

----------------------------------------------------------------------------
(* Bounds of the model *)

MaxCalls == 4    \* calls that store a customer, a payment method, a payment, a refund,
                 \* a plan, a subscription or a handler
MaxAmount == 1   \* largest payment amount passed to create_payment
MaxTime == 1     \* latest reading of the clock
MaxCancels == 2  \* cancel_subscription calls that reach one subscription

----------------------------------------------------------------------------
(* Values *)

\* Python's None, where a str is optional
None == "None"

\* Python's None, where a Decimal is optional: Unset, or Some(v)
Unset == <<>>
Some(v) == <<v>>

\* datetime.now() stored in completed_at and cancelled_at: no operation reads these
\* back, so one value stands for every reading. The timestamps that are read back or
\* computed with (Payment.created_at, the times of a Subscription) are readings of
\* clock, counted in days.
Now == "now"

\* timedelta(days=n)
Days(n) == n

\* bool(x) of an optional str: None and "" are falsy
Truthy(s) == s # None /\ s # ""

\* f"cus_{secrets.token_hex(8)}" and the like: a fresh id, the n-th of its kind
Id(prefix, n) == prefix \o ToString(n)

Currency == {"USD", "EUR", "GBP", "BTC", "ETH"}

PaymentStatus == {"pending", "processing", "completed", "failed", "refunded", "cancelled"}

PaymentMethod == {"card", "bank", "wallet", "crypto"}

Money(amount, currency) == [amount |-> amount, currency |-> currency]

\* A mapping (dict) with str keys: a set of <<key, value>> pairs, one per key
EmptyDict == {}
HasKey(d, k) == \E p \in d : p[1] = k
DictGet(d, k, default) ==
    IF HasKey(d, k) THEN (CHOOSE p \in d : p[1] = k)[2] ELSE default
DictUpdate(d, other) ==
    {p \in d : ~HasKey(other, p[1])} \cup other

\* map[k] = v, k a new key
Insert(map, k, v) == [x \in DOMAIN map \cup {k} |-> IF x = k THEN v ELSE map[x]]

\* map without the key k
Remove(map, k) == [x \in DOMAIN map \ {k} |-> map[x]]

----------------------------------------------------------------------------
(* The event sink *)

\* the keys of self.hooks
Events ==
    { "payment.created", "payment.completed", "payment.failed",
      "subscription.created", "subscription.cancelled",
      "refund.created", "refund.completed" }

\* a handler: a callable that returns, or raises an Exception
Handler(name, raises) == [name |-> name, raises |-> raises]

\* Invoked stopping at the first handler that raises
RECURSIVE InvokedUntilRaise(_)
InvokedUntilRaise(handlers) ==
    IF handlers = <<>> THEN <<>>
    ELSE <<[handler |-> Head(handlers).name, logged |-> Head(handlers).raises]>>
            \o (IF Head(handlers).raises THEN <<>> ELSE InvokedUntilRaise(Tail(handlers)))

\* the loop of _emit over the handlers of an event: the calls it makes, in order,
\* each with whether its exception was caught and logged
RECURSIVE Invoked(_)
Invoked(handlers) ==
    IF handlers = <<>> THEN <<>>
    ELSE <<[handler |-> Head(handlers).name, logged |-> Head(handlers).raises]>>
            \o Invoked(Tail(handlers))

----------------------------------------------------------------------------
(* Inputs *)

\* customer ids a caller passes: the known ones, and one create_customer never hands out
CustomerIdArgs == DOMAIN customers \cup {"cus_0"}

\* payment ids a caller passes to create_refund: the known ones, and an unknown one
PaymentIdArgs == DOMAIN payments \cup {"pay_0"}

\* payment_method_id of create_payment: omitted, or the id of a method
MethodIdArgs == {None, "pm_1"}

\* (amount, currency) of create_payment
MoneyArgs == {Money(a, IF a % 2 = 1 THEN "EUR" ELSE "USD") : a \in 1..MaxAmount}

MethodTypeArgs == {"card"}

\* amount of create_refund: omitted, or a Decimal from 0 to above the payment's amount
RefundAmountArgs == {Unset} \cup {Some(a) : a \in 0..(MaxAmount + 1)}

\* the amounts to try on a payment: a call that is turned away does not read its amount
RefundAmountArgsFor(payment_id) ==
    IF payment_id \in DOMAIN payments /\ payments[payment_id].status = "completed"
    THEN RefundAmountArgs ELSE {Unset}

\* plan ids a caller passes to create_subscription: the known ones, and an unknown one
PlanIdArgs == DOMAIN plans \cup {"plan_0"}

\* subscription ids a caller passes to cancel_subscription
SubscriptionIdArgs == DOMAIN subscriptions \cup {"sub_0"}

\* (interval, interval_count, trial_days) of create_plan
PlanArgs == { <<"monthly", 1, 14>>, <<"weekly", 2, 0>> }

\* customer_id of list_payments: omitted, empty, or an id
ListArgs == CustomerIdArgs \cup {None, ""}

\* event of add_hook: one of the fixed names, or another
EventArgs == Events \cup {"payment.refunded"}

\* handler of add_hook
HandlerArgs == {Handler("h_returns", FALSE), Handler("h_raises", TRUE)}

\* readings of datetime.now(), in days
Times == 0..MaxTime

\* what provider.charge may answer: (success, result)
ChargeOutcomes ==
    { <<TRUE, {<<"provider_id", "tok">>}>>,
      <<FALSE, EmptyDict>>,
      <<FALSE, {<<"error", "declined">>}>>,
      <<FALSE, {<<"error", None>>}>> }

----------------------------------------------------------------------------
(* The event sink, continued *)

\* _emit(event, data): every handler of the event is called with the entity.
\* The log keeps, for each entity, the events emitted about it in order, each with
\* the entity's fields as the handlers see them and the handlers called.
Emit(log, event, id, data) ==
    [x \in DOMAIN log \cup {id} |->
        IF x = id
        THEN Append(IF id \in DOMAIN log THEN log[id] ELSE <<>>,
                    [event |-> event, data |-> data,
                     invoked |-> Invoked(hooks[event])])
        ELSE log[x]]

----------------------------------------------------------------------------
(* Returns *)

\* what a call gave back: arg is the id passed (of a customer, a payment or a
\* subscription), payment_method_id the second id passed (the method of
\* create_payment, the plan of create_subscription), ret the id of the entity
\* returned, or None, or the bool of cancel_subscription, exc the message of the
\* ValueError raised or None
Return(op, arg, payment_method_id, ret, exc) ==
    [op |-> op, arg |-> arg, payment_method_id |-> payment_method_id,
     ret |-> ret, exc |-> exc]

\* the customers, payment methods, payments and refunds stored so far
AllMethodIds ==
    UNION {{customers[c].payment_methods[i].id :
               i \in 1..Len(customers[c].payment_methods)} : c \in DOMAIN customers}

NumHandlers ==
    Len(hooks["payment.created"]) + Len(hooks["payment.completed"])
        + Len(hooks["payment.failed"]) + Len(hooks["subscription.created"])
        + Len(hooks["subscription.cancelled"]) + Len(hooks["refund.created"])
        + Len(hooks["refund.completed"])

NumStored ==
    Cardinality(DOMAIN customers) + Cardinality(AllMethodIds)
        + Cardinality(DOMAIN payments) + Cardinality(DOMAIN refunds)
        + Cardinality(DOMAIN plans) + Cardinality(DOMAIN subscriptions)
        + NumHandlers

----------------------------------------------------------------------------
(* Initial state: PaymentProcessor.__init__ *)

Init ==
    /\ customers = <<>>
    /\ payments = <<>>
    /\ refunds = <<>>
    /\ events = <<>>
    /\ providerLog = <<>>
    /\ calls = <<>>
    /\ running = None
    /\ returned = Return("none", None, None, None, None)
    /\ plans = <<>>
    /\ subscriptions = <<>>
    /\ hooks = [event \in Events |-> <<>>]
    /\ lock = None
    /\ clock = 0
    /\ listed = [customer_id |-> None, result |-> <<>>]

----------------------------------------------------------------------------
(* The lock *)

\* `with self._lock:` is entered when the lock is free
Free == lock = None

\* the end of the `with self._lock:` block of an operation that returns after it
Release(holder) == None

\* ReleaseBeforeEmit keeping the lock for the rest of the call
HeldOverEmit(holder) == holder

\* the end of the `with self._lock:` block of an operation that goes on to _emit
\* (and to the await of the provider)
ReleaseBeforeEmit(holder) == None

----------------------------------------------------------------------------
(* Customers *)

\* Customer(id=..., email=email, name=name): no payment method, no default
NewCustomer == [payment_methods |-> <<>>, default_payment_method |-> None]

create_customer ==
    /\ NumStored < MaxCalls
    /\ LET id == Id("cus_", Cardinality(DOMAIN customers) + 1)
       IN /\ Free
          /\ customers' = Insert(customers, id, NewCustomer)
          /\ lock' = Release(id)
          /\ returned' = Return("create_customer", None, None, id, None)
    /\ UNCHANGED <<payments, refunds, events, providerLog, calls, running, billing>>

\* PaymentMethodInfo(id=f"pm_{secrets.token_hex(8)}", type=method_type)
NewMethod(type) ==
    [id |-> Id("pm_", Cardinality(AllMethodIds) + 1), type |-> type]

\* AppendMethod replacing the list by the new method alone
AppendMethodAlone(customer, method) ==
    [customer EXCEPT !.payment_methods = <<method>>]

\* customer.payment_methods.append(method)
AppendMethod(customer, method) ==
    [customer EXCEPT !.payment_methods = Append(@, method)]

\* if not customer.default_payment_method
NoDefault(customer) == ~Truthy(customer.default_payment_method)

\* customer.default_payment_method = method.id
SetDefault(customer, method_id) ==
    [customer EXCEPT !.default_payment_method = method_id]

MethodCall(pc, customer_id) ==
    [op |-> "add_payment_method", pc |-> pc, customer_id |-> customer_id]

\* add_payment_method, up to and including the append; None for an unknown customer
add_payment_method(customer_id, method_type) ==
    /\ IF customer_id \notin DOMAIN customers
       THEN /\ returned' = Return("add_payment_method", customer_id, None, None, None)
            /\ UNCHANGED <<customers, calls>>
       ELSE LET method == NewMethod(method_type)
            IN /\ NumStored < MaxCalls
               /\ customers' = [customers EXCEPT
                                  ![customer_id] = AppendMethod(@, method)]
               /\ calls' = Insert(calls, method.id, MethodCall("check_default", customer_id))
               /\ UNCHANGED returned
    /\ UNCHANGED <<payments, refunds, events, providerLog, running, lock, billing>>

\* add_payment_method, the test of line 218, and the return when a default is set
add_payment_method_check(m) ==
    /\ calls[m].op = "add_payment_method"
    /\ calls[m].pc = "check_default"
    /\ IF NoDefault(customers[calls[m].customer_id])
       THEN /\ calls' = [calls EXCEPT ![m] = [@ EXCEPT !.pc = "set_default"]]
            /\ UNCHANGED returned
       ELSE /\ calls' = Remove(calls, m)
            /\ returned' = Return("add_payment_method", calls[m].customer_id, None,
                                  m, None)
    /\ UNCHANGED <<customers, payments, refunds, events, providerLog, running, lock,
                    billing>>

\* add_payment_method, the assignment of line 219 and the return
add_payment_method_set(m) ==
    /\ calls[m].op = "add_payment_method"
    /\ calls[m].pc = "set_default"
    /\ customers' = [customers EXCEPT ![calls[m].customer_id] = SetDefault(@, m)]
    /\ calls' = Remove(calls, m)
    /\ returned' = Return("add_payment_method", calls[m].customer_id, None, m, None)
    /\ UNCHANGED <<payments, refunds, events, providerLog, running, lock, billing>>

----------------------------------------------------------------------------
(* Payments *)

\* pm_id = payment_method_id or customer.default_payment_method
ResolveMethod(payment_method_id, customer) ==
    IF Truthy(payment_method_id) THEN payment_method_id
    ELSE customer.default_payment_method

\* NoPaymentMethod testing for the empty string alone
NoPaymentMethodEmptyOnly(pm_id) == pm_id = ""

\* if not pm_id
NoPaymentMethod(pm_id) == ~Truthy(pm_id)

\* Payment(id=..., customer_id=..., amount=Money(amount, currency), payment_method_id=pm_id)
NewPayment(customer_id, amount, currency, pm_id) ==
    [customer_id |-> customer_id,
     amount |-> Money(amount, currency),
     status |-> "pending",
     payment_method_id |-> pm_id,
     metadata |-> EmptyDict,
     created_at |-> clock,
     completed_at |-> None,
     error |-> None]

\* payment.status = PaymentStatus.PROCESSING
Processing(payment) == [payment EXCEPT !.status = "processing"]

\* ChargeSucceeded without the stamp of completed_at
ChargeSucceededNoStamp(payment, result) ==
    [payment EXCEPT !.status = "completed",
                    !.metadata = DictUpdate(@, result)]

\* the success branch of create_payment, lines 247-249
ChargeSucceeded(payment, result) ==
    [payment EXCEPT !.status = "completed",
                    !.completed_at = Now,
                    !.metadata = DictUpdate(@, result)]

\* ChargeFailed leaving the status as it is
ChargeFailedKeepsStatus(payment, result) ==
    [payment EXCEPT !.error = DictGet(result, "error", "Payment failed")]

\* the failure branch of create_payment, lines 252-253
ChargeFailed(payment, result) ==
    [payment EXCEPT !.status = "failed",
                    !.error = DictGet(result, "error", "Payment failed")]

PaymentCall(pc, customer_id, payment_method_id) ==
    [op |-> "create_payment", pc |-> pc, customer_id |-> customer_id,
     payment_method_id |-> payment_method_id]

\* create_payment up to the handlers of payment.created, or up to its raise.
\* The amount and currency arguments, first read at line 234, are drawn there.
create_payment(customer_id, payment_method_id) ==
    /\ running = None
    /\ IF customer_id \notin DOMAIN customers
       THEN /\ returned' = Return("create_payment", customer_id, payment_method_id,
                                  None, "Customer not found")
            /\ UNCHANGED <<payments, events, calls, running, lock>>
       ELSE LET pm_id == ResolveMethod(payment_method_id, customers[customer_id])
                id == Id("pay_", Cardinality(DOMAIN payments) + 1)
            IN IF NoPaymentMethod(pm_id)
               THEN /\ returned' = Return("create_payment", customer_id, payment_method_id,
                                          None, "No payment method")
                    /\ UNCHANGED <<payments, events, calls, running, lock>>
               ELSE \E money \in MoneyArgs :
                      LET payment == NewPayment(customer_id, money.amount,
                                                money.currency, pm_id)
                      IN /\ NumStored < MaxCalls
                         /\ Free
                         /\ payments' = Insert(payments, id, payment)
                         /\ lock' = ReleaseBeforeEmit(id)
                         /\ events' = Emit(events, "payment.created", id, payment)
                         /\ calls' = Insert(calls, id, PaymentCall("created", customer_id,
                                                                   payment_method_id))
                         /\ running' = id
                         /\ UNCHANGED returned
    /\ UNCHANGED <<customers, refunds, providerLog, billing>>

\* create_payment from the return of _emit("payment.created") to the await of the charge
create_payment_charge(id) ==
    /\ running = id
    /\ calls[id].op = "create_payment"
    /\ calls[id].pc = "created"
    /\ payments' = [payments EXCEPT ![id] = Processing(@)]
    /\ providerLog' = Insert(providerLog, id,
          [op |-> "charge", customer_id |-> calls[id].customer_id,
           amount |-> payments[id].amount,
           payment_method_id |-> payments[id].payment_method_id,
           answer |-> <<>>])
    /\ calls' = [calls EXCEPT ![id] = [@ EXCEPT !.pc = "await_charge"]]
    /\ running' = None
    /\ UNCHANGED <<customers, refunds, events, returned, lock, billing>>

\* create_payment from the answer of provider.charge to its return
create_payment_resume(id, success, result) ==
    /\ running = None
    /\ calls[id].op = "create_payment"
    /\ calls[id].pc = "await_charge"
    /\ IF success
       THEN /\ payments' = [payments EXCEPT ![id] = ChargeSucceeded(@, result)]
            /\ events' = Emit(events, "payment.completed", id, payments'[id])
       ELSE /\ payments' = [payments EXCEPT ![id] = ChargeFailed(@, result)]
            /\ events' = Emit(events, "payment.failed", id, payments'[id])
    /\ providerLog' = [providerLog EXCEPT ![id].answer = <<success, result>>]
    /\ calls' = Remove(calls, id)
    /\ returned' = Return("create_payment", calls[id].customer_id,
                          calls[id].payment_method_id, id, None)
    /\ UNCHANGED <<customers, refunds, running, lock, billing>>

----------------------------------------------------------------------------
(* Refunds *)

\* Refundable without its test of the status
RefundableAnyStatus(payment_id) ==
    payment_id \in DOMAIN payments

\* Refundable taking a refunded payment too
RefundableAgain(payment_id) ==
    /\ payment_id \in DOMAIN payments
    /\ payments[payment_id].status \in {"completed", "refunded"}

\* the guard of create_refund, lines 259-261: the payment exists and is COMPLETED
Refundable(payment_id) ==
    /\ payment_id \in DOMAIN payments
    /\ payments[payment_id].status = "completed"

\* refund_amount = Money(amount or payment.amount.amount, payment.amount.currency)
RefundAmount(amount, payment) ==
    Money(IF amount # Unset /\ amount[1] # 0 THEN amount[1] ELSE payment.amount.amount,
          payment.amount.currency)

\* Refund(id=..., payment_id=payment_id, amount=refund_amount)
NewRefund(payment_id, refund_amount) ==
    [payment_id |-> payment_id,
     amount |-> refund_amount,
     status |-> "pending"]

\* refund.status = PaymentStatus.COMPLETED
RefundCompleted(refund) == [refund EXCEPT !.status = "completed"]

\* Refunded leaving the payment as it is
RefundedNot(payment) == payment

\* payment.status = PaymentStatus.REFUNDED
Refunded(payment) == [payment EXCEPT !.status = "refunded"]

\* refund.status = PaymentStatus.FAILED
RefundFailed(refund) == [refund EXCEPT !.status = "failed"]

RefundCall(pc, payment_id, amount) ==
    [op |-> "create_refund", pc |-> pc, payment_id |-> payment_id, amount |-> amount]

\* create_refund up to the await of provider.refund, or up to its return of None
create_refund(payment_id, amount) ==
    /\ running = None
    /\ IF ~Refundable(payment_id)
       THEN /\ returned' = Return("create_refund", payment_id, None, None, None)
            /\ UNCHANGED <<refunds, events, providerLog, calls, lock>>
       ELSE LET refund_amount == RefundAmount(amount, payments[payment_id])
                id == Id("ref_", Cardinality(DOMAIN refunds) + 1)
                refund == NewRefund(payment_id, refund_amount)
            IN /\ NumStored < MaxCalls
               /\ Free
               /\ refunds' = Insert(refunds, id, refund)
               /\ lock' = ReleaseBeforeEmit(id)
               /\ events' = Emit(events, "refund.created", id, refund)
               /\ providerLog' = Insert(providerLog, id,
                     [op |-> "refund", payment_id |-> payment_id,
                      amount |-> refund_amount, answer |-> <<>>])
               /\ calls' = Insert(calls, id, RefundCall("await_refund", payment_id,
                                                        amount))
               /\ UNCHANGED returned
    /\ UNCHANGED <<customers, payments, running, billing>>

\* create_refund from the answer of provider.refund to its return
create_refund_resume(id, success) ==
    /\ running = None
    /\ calls[id].op = "create_refund"
    /\ calls[id].pc = "await_refund"
    /\ IF success
       THEN /\ refunds' = [refunds EXCEPT ![id] = RefundCompleted(@)]
            /\ payments' = [payments EXCEPT ![calls[id].payment_id] = Refunded(@)]
            /\ events' = Emit(events, "refund.completed", id, refunds'[id])
       ELSE /\ refunds' = [refunds EXCEPT ![id] = RefundFailed(@)]
            /\ UNCHANGED <<payments, events>>
    /\ providerLog' = [providerLog EXCEPT ![id].answer = <<success>>]
    /\ calls' = Remove(calls, id)
    /\ returned' = Return("create_refund", calls[id].payment_id, None, id, None)
    /\ UNCHANGED <<customers, running, lock, billing>>

----------------------------------------------------------------------------
(* Handlers *)

\* add_hook: the handler is appended to the handlers of a known event; another
\* event name is ignored
add_hook(event, handler) ==
    /\ IF event \in DOMAIN hooks
       THEN /\ NumStored < MaxCalls
            /\ hooks' = [hooks EXCEPT ![event] = Append(@, handler)]
       ELSE UNCHANGED hooks
    /\ UNCHANGED <<customers, payments, refunds, events, providerLog, calls, running,
                   returned, plans, subscriptions, lock, clock, listed>>

----------------------------------------------------------------------------
(* Plans and subscriptions *)

SubscriptionStatus == {"active", "paused", "cancelled", "expired"}

BillingInterval == {"daily", "weekly", "monthly", "yearly"}

\* Plan(id=..., interval=interval, **kwargs)
NewPlan(interval, interval_count, trial_days) ==
    [interval |-> interval, interval_count |-> interval_count, trial_days |-> trial_days]

create_plan(interval, interval_count, trial_days) ==
    /\ NumStored < MaxCalls
    /\ LET id == Id("plan_", Cardinality(DOMAIN plans) + 1)
       IN /\ Free
          /\ plans' = Insert(plans, id, NewPlan(interval, interval_count, trial_days))
          /\ lock' = Release(id)
          /\ returned' = Return("create_plan", None, None, id, None)
    /\ UNCHANGED <<customers, payments, refunds, events, providerLog, calls, running,
                   subscriptions, hooks, clock, listed>>

_calculate_period_end(start, interval, count) ==
    IF interval = "daily" THEN start + Days(count)
    ELSE IF interval = "weekly" THEN start + Days(7 * count)
    ELSE IF interval = "monthly" THEN start + Days(30 * count)
    ELSE start + Days(365 * count)

\* TrialEnd without its test of trial_days
TrialEndAlways(now, trial_days) == Some(now + Days(trial_days))

\* now + timedelta(days=plan.trial_days) if plan.trial_days else None
TrialEnd(now, trial_days) ==
    IF trial_days # 0 THEN Some(now + Days(trial_days)) ELSE Unset

\* Subscription(id=..., customer_id=..., plan_id=..., current_period_end=...,
\* trial_end=...): current_period_start is the clock as the record is made
NewSubscription(customer_id, plan_id, start, period_end, trial_end) ==
    [customer_id |-> customer_id,
     plan_id |-> plan_id,
     status |-> "active",
     current_period_start |-> start,
     current_period_end |-> period_end,
     trial_end |-> trial_end,
     cancelled_at |-> None]

\* create_subscription: `now` is the clock as the call reads it at line 306; the
\* clock may have moved on when the Subscription is made at line 310
create_subscription(customer_id, plan_id) ==
    /\ IF customer_id \notin DOMAIN customers \/ plan_id \notin DOMAIN plans
       THEN /\ returned' = Return("create_subscription", customer_id, plan_id, None, None)
            /\ UNCHANGED <<subscriptions, events, lock, clock>>
       ELSE \E later \in {clock, clock + 1} \cap Times :
              LET now == clock
                  plan == plans[plan_id]
                  period_end == _calculate_period_end(now, plan.interval,
                                                      plan.interval_count)
                  trial_end == TrialEnd(now, plan.trial_days)
                  id == Id("sub_", Cardinality(DOMAIN subscriptions) + 1)
                  subscription == NewSubscription(customer_id, plan_id, later,
                                                  period_end, trial_end)
              IN /\ NumStored < MaxCalls
                 /\ Free
                 /\ clock' = later
                 /\ subscriptions' = Insert(subscriptions, id, subscription)
                 /\ lock' = ReleaseBeforeEmit(id)
                 /\ events' = Emit(events, "subscription.created", id, subscription)
                 /\ returned' = Return("create_subscription", customer_id, plan_id,
                                       id, None)
    /\ UNCHANGED <<customers, payments, refunds, providerLog, calls, running, plans,
                   hooks, listed>>

\* Cancelled leaving the status as it is
CancelledNot(subscription) ==
    [subscription EXCEPT !.cancelled_at = Now]

\* subscription.status = SubscriptionStatus.CANCELLED; subscription.cancelled_at = now()
Cancelled(subscription) ==
    [subscription EXCEPT !.status = "cancelled", !.cancelled_at = Now]

\* the subscription.cancelled events emitted about a subscription
NumCancels(subscription_id) ==
    Cardinality({i \in 1..Len(events[subscription_id]) :
                    events[subscription_id][i].event = "subscription.cancelled"})

\* cancel_subscription: False for an unknown id, else True
cancel_subscription(subscription_id) ==
    /\ IF subscription_id \notin DOMAIN subscriptions
       THEN /\ returned' = Return("cancel_subscription", subscription_id, None,
                                  "False", None)
            /\ UNCHANGED <<subscriptions, events>>
       ELSE /\ NumCancels(subscription_id) < MaxCancels
            /\ subscriptions' = [subscriptions EXCEPT ![subscription_id] = Cancelled(@)]
            /\ events' = Emit(events, "subscription.cancelled", subscription_id,
                              subscriptions'[subscription_id])
            /\ returned' = Return("cancel_subscription", subscription_id, None,
                                  "True", None)
    /\ UNCHANGED <<customers, payments, refunds, providerLog, calls, running, plans,
                   hooks, lock, clock, listed>>

----------------------------------------------------------------------------
(* The clock *)

\* the wall clock reads another time: later, or earlier after it was set back
Tick ==
    /\ \E t \in Times \ {clock} : clock' = t
    /\ UNCHANGED <<customers, payments, refunds, events, providerLog, calls, running,
                   returned, plans, subscriptions, hooks, lock, listed>>

----------------------------------------------------------------------------
(* Queries *)

\* list(self.payments.values()): the payments in the order of their insertion
PaymentsInserted ==
    [i \in 1..Cardinality(DOMAIN payments) |-> Id("pay_", i)]

\* [p for p in payments if p.customer_id == customer_id]
OfCustomer(ids, customer_id) ==
    LET Test(id) == payments[id].customer_id = customer_id
    IN SelectSeq(ids, Test)

\* sorted(payments, key=lambda p: p.created_at, reverse=True): a stable sort, so
\* payments of one created_at keep the order they came in
RECURSIVE SortedNewestFirst(_)
SortedNewestFirst(ids) ==
    IF ids = <<>> THEN <<>>
    ELSE LET x == ids[Len(ids)]
             rest == SortedNewestFirst(SubSeq(ids, 1, Len(ids) - 1))
             k == Cardinality({i \in 1..Len(rest) :
                      payments[rest[i]].created_at >= payments[x].created_at})
         IN SubSeq(rest, 1, k) \o <<x>> \o SubSeq(rest, k + 1, Len(rest))

\* list_payments: the filter is applied `if customer_id`
list_payments(customer_id) ==
    /\ listed' = [customer_id |-> customer_id,
                  result |-> SortedNewestFirst(
                                IF Truthy(customer_id)
                                THEN OfCustomer(PaymentsInserted, customer_id)
                                ELSE PaymentsInserted)]
    /\ UNCHANGED <<customers, payments, refunds, events, providerLog, calls, running,
                   returned, plans, subscriptions, hooks, lock, clock>>

----------------------------------------------------------------------------

Next ==
    \/ create_customer
    \/ \E customer_id \in CustomerIdArgs, method_type \in MethodTypeArgs :
          add_payment_method(customer_id, method_type)
    \/ \E m \in DOMAIN calls : add_payment_method_check(m)
    \/ \E m \in DOMAIN calls : add_payment_method_set(m)
    \/ \E customer_id \in CustomerIdArgs, payment_method_id \in MethodIdArgs :
          create_payment(customer_id, payment_method_id)
    \/ \E id \in DOMAIN calls : create_payment_charge(id)
    \/ \E id \in DOMAIN calls, outcome \in ChargeOutcomes :
          create_payment_resume(id, outcome[1], outcome[2])
    \/ \E payment_id \in PaymentIdArgs :
          \E amount \in RefundAmountArgsFor(payment_id) : create_refund(payment_id, amount)
    \/ \E id \in DOMAIN calls, success \in BOOLEAN : create_refund_resume(id, success)

Spec == Init /\ [][Next]_vars

\* Payments and refunds under the scheduling of the event loop: it runs a call on
\* to its await once the handlers of payment.created have returned, and resumes it
\* once the provider's charge has answered. The payment methods and the amounts of
\* the refunds, which no step reads to set the status of a payment, are left to Spec.
Resumes(id) ==
    \E outcome \in ChargeOutcomes : create_payment_resume(id, outcome[1], outcome[2])

NextFair ==
    \/ create_customer
    \/ \E customer_id \in CustomerIdArgs, payment_method_id \in MethodIdArgs :
          create_payment(customer_id, payment_method_id)
    \/ \E id \in DOMAIN calls : create_payment_charge(id)
    \/ \E id \in DOMAIN calls : Resumes(id)
    \/ \E payment_id \in PaymentIdArgs : create_refund(payment_id, Unset)
    \/ \E id \in DOMAIN calls, success \in BOOLEAN : create_refund_resume(id, success)

SpecFair ==
    /\ Init /\ [][NextFair]_vars
    /\ WF_vars(\E id \in DOMAIN calls : create_payment_charge(id))
    /\ WF_vars(\E id \in DOMAIN calls : Resumes(id))

\* Plans and subscriptions
NextBilling ==
    \/ create_customer
    \/ \E plan \in PlanArgs : create_plan(plan[1], plan[2], plan[3])
    \/ \E customer_id \in CustomerIdArgs, plan_id \in PlanIdArgs :
          create_subscription(customer_id, plan_id)
    \/ \E subscription_id \in SubscriptionIdArgs : cancel_subscription(subscription_id)

SpecBilling == Init /\ [][NextBilling]_vars

\* list_payments over the payments stored under a clock that moves. The provider's
\* answers, which list_payments does not read, are left to Spec.
NextQuery ==
    \/ create_customer
    \/ \E customer_id \in CustomerIdArgs, payment_method_id \in MethodIdArgs :
          create_payment(customer_id, payment_method_id)
    \/ \E id \in DOMAIN calls : create_payment_charge(id)
    \/ Tick
    \/ \E customer_id \in ListArgs : list_payments(customer_id)

SpecQuery == Init /\ [][NextQuery]_vars

\* Every operation that stores a record or emits an event, with handlers registered.
\* The payments name their method, a charge that fails gives no error, the refunds
\* are of the full amount and the plans have a trial.
NextHooks ==
    \/ \E event \in EventArgs, handler \in HandlerArgs : add_hook(event, handler)
    \/ create_customer
    \/ \E customer_id \in CustomerIdArgs : create_payment(customer_id, "pm_1")
    \/ \E id \in DOMAIN calls : create_payment_charge(id)
    \/ \E id \in DOMAIN calls, success \in BOOLEAN :
          create_payment_resume(id, success, EmptyDict)
    \/ \E payment_id \in PaymentIdArgs : create_refund(payment_id, Unset)
    \/ \E id \in DOMAIN calls, success \in BOOLEAN : create_refund_resume(id, success)
    \/ create_plan("monthly", 1, 14)
    \/ \E customer_id \in CustomerIdArgs, plan_id \in PlanIdArgs :
          create_subscription(customer_id, plan_id)
    \/ \E subscription_id \in SubscriptionIdArgs : cancel_subscription(subscription_id)

SpecHooks == Init /\ [][NextHooks]_vars

\* the shape of the stored records
TypeOK ==
    /\ \A c \in DOMAIN customers :
          \A i \in 1..Len(customers[c].payment_methods) :
              customers[c].payment_methods[i].type \in PaymentMethod
    /\ \A p \in DOMAIN payments :
          /\ payments[p].status \in PaymentStatus
          /\ payments[p].amount.currency \in Currency
          /\ payments[p].customer_id \in DOMAIN customers
    /\ \A r \in DOMAIN refunds :
          /\ refunds[r].status \in PaymentStatus
          /\ refunds[r].amount.currency \in Currency
          /\ refunds[r].payment_id \in DOMAIN payments
    /\ running \in DOMAIN payments \cup {None}

----------------------------------------------------------------------------
(* Vocabulary of the claims *)

\* the payment is stored and COMPLETED
IsCompleted(payment_id) ==
    /\ payment_id \in DOMAIN payments
    /\ payments[payment_id].status = "completed"

\* the refunds that reference a payment
RefundsOf(payment_id) == {r \in DOMAIN refunds : refunds[r].payment_id = payment_id}

\* this step is a call of op that returned (or raised) before its first await
ReturnsAtOnce(op) ==
    /\ returned' # returned
    /\ returned'.op = op
    /\ DOMAIN calls' = DOMAIN calls

----------------------------------------------------------------------------
(* C1 *)

StatusEdges ==
    { <<"pending", "processing">>, <<"processing", "completed">>,
      <<"processing", "failed">>, <<"completed", "refunded">> }

\* C1: a stored payment is never dropped, a new one is PENDING, and every change of
\* a payment's status follows PENDING -> PROCESSING -> COMPLETED or FAILED, or
\* COMPLETED -> REFUNDED; so FAILED and REFUNDED are never left, CANCELLED is never
\* taken and no status is gone back to.
C1_StatusPath ==
    [][ /\ DOMAIN payments \subseteq DOMAIN payments'
        /\ \A id \in DOMAIN payments' \ DOMAIN payments : payments'[id].status = "pending"
        /\ \A id \in DOMAIN payments :
              \/ payments'[id].status = payments[id].status
              \/ <<payments[id].status, payments'[id].status>> \in StatusEdges ]_vars

\* two create_refund calls on one payment were in flight together and both are
\* over, one of them having refunded the payment
C1_Witness ==
    \E p \in DOMAIN payments : \E r1, r2 \in RefundsOf(p) :
        /\ r1 # r2
        /\ payments[p].status = "refunded"
        /\ refunds[r1].status = "completed"
        /\ refunds[r2].status \in {"completed", "failed"}

----------------------------------------------------------------------------
(* C2 *)

\* C2: a create_refund call whose payment is unknown or not COMPLETED at call time
\* returns None and changes no payment, refund, event or provider invocation; and
\* whatever step stores a Refund, emits refund.created or invokes provider.refund
\* does so for a payment that is COMPLETED in the state the call starts in.
C2_RefundRejected ==
    [][ /\ (ReturnsAtOnce("create_refund") /\ ~IsCompleted(returned'.arg))
              => /\ returned'.ret = None
                 /\ returned'.exc = None
                 /\ UNCHANGED <<payments, refunds, events, providerLog>>
        /\ \A r \in DOMAIN refunds' \ DOMAIN refunds : IsCompleted(refunds'[r].payment_id)
        /\ \A r \in DOMAIN providerLog' \ DOMAIN providerLog :
              providerLog'[r].op = "refund" => IsCompleted(providerLog'[r].payment_id)
        /\ \A r \in DOMAIN events' \ DOMAIN events :
              events'[r][1].event = "refund.created" => IsCompleted(events'[r][1].data.payment_id)
      ]_vars

\* create_refund has just answered None for a payment that is already REFUNDED
C2_Witness ==
    /\ returned.op = "create_refund"
    /\ returned.ret = None
    /\ returned.arg \in DOMAIN payments
    /\ payments[returned.arg].status = "refunded"

----------------------------------------------------------------------------
(* C3 *)

\* C3: in every state, which is every state a task or a handler can observe, a
\* Refund that is COMPLETED references a Payment that is REFUNDED, and the entity
\* handed to the refund.completed handlers is already COMPLETED.
C3_RefundAtomic ==
    /\ \A r \in DOMAIN refunds :
          refunds[r].status = "completed"
              => payments[refunds[r].payment_id].status = "refunded"
    /\ \A r \in DOMAIN refunds : \A i \in 1..Len(events[r]) :
          events[r][i].event = "refund.completed" => events[r][i].data.status = "completed"

\* a refund has succeeded and its refund.completed event is out
C3_Witness ==
    \E r \in DOMAIN refunds :
        /\ refunds[r].status = "completed"
        /\ Len(events[r]) = 2
        /\ events[r][2].event = "refund.completed"

----------------------------------------------------------------------------
(* C4 *)

\* C4: whenever a create_refund call ends with its Refund going to FAILED, the call
\* returns that Refund, has not changed the payment's status, and the payment is
\* COMPLETED as the call returns, so that create_refund would accept it again.
C4_FailedRefundKeepsCompleted ==
    [][ \A r \in DOMAIN refunds :
          (refunds[r].status = "pending" /\ refunds'[r].status = "failed")
              => /\ returned'.ret = r
                 /\ payments'[refunds[r].payment_id].status
                       = payments[refunds[r].payment_id].status
                 /\ payments'[refunds[r].payment_id].status = "completed" ]_vars

----------------------------------------------------------------------------
(* C5 *)

\* C5: a create_payment call for an unknown customer raises "Customer not found",
\* one with no payment_method_id for a customer without a default raises "No payment
\* method", and neither stores a payment, emits an event or invokes the provider;
\* and whatever step stores a Payment does so for a known customer that was given a
\* method or has a default one.
C5_PaymentRejected ==
    [][ /\ (ReturnsAtOnce("create_payment") /\ returned'.arg \notin DOMAIN customers)
              => /\ returned'.exc = "Customer not found"
                 /\ returned'.ret = None
                 /\ UNCHANGED <<payments, events, providerLog, calls>>
        /\ ( /\ ReturnsAtOnce("create_payment")
             /\ returned'.arg \in DOMAIN customers
             /\ returned'.payment_method_id = None
             /\ customers[returned'.arg].default_payment_method = None )
              => /\ returned'.exc = "No payment method"
                 /\ returned'.ret = None
                 /\ UNCHANGED <<payments, events, providerLog, calls>>
        /\ \A id \in DOMAIN payments' \ DOMAIN payments :
              /\ calls'[id].customer_id \in DOMAIN customers
              /\ \/ calls'[id].payment_method_id # None
                 \/ customers[calls'[id].customer_id].default_payment_method # None
        /\ \A id \in DOMAIN providerLog' \ DOMAIN providerLog :
              providerLog'[id].op = "charge" => id \in DOMAIN payments
      ]_vars

\* create_payment has just raised "No payment method" for a known customer
C5_Witness ==
    /\ returned.op = "create_payment"
    /\ returned.exc = "No payment method"
    /\ returned.arg \in DOMAIN customers
    /\ payments = <<>>

----------------------------------------------------------------------------
(* C6 *)

EventNames(id) == [i \in 1..Len(events[id]) |-> events[id][i].event]

\* C6: the events about a stored payment are payment.created alone while the charge
\* is unanswered; payment.created then payment.completed, handed over with status
\* COMPLETED and completed_at set, once the charge has succeeded; payment.created
\* then payment.failed once it has failed.
C6_PaymentEvents ==
    \A id \in DOMAIN payments :
        LET answered == id \in DOMAIN providerLog /\ providerLog[id].answer # <<>>
        IN /\ ~answered => EventNames(id) = <<"payment.created">>
           /\ (answered /\ providerLog[id].answer[1])
                 => /\ EventNames(id) = <<"payment.created", "payment.completed">>
                    /\ events[id][2].data.status = "completed"
                    /\ events[id][2].data.completed_at # None
           /\ (answered /\ ~providerLog[id].answer[1])
                 => EventNames(id) = <<"payment.created", "payment.failed">>

\* one payment's charge has succeeded and another's has failed
C6_Witness ==
    \E p, q \in DOMAIN payments :
        /\ p \in DOMAIN providerLog /\ q \in DOMAIN providerLog
        /\ providerLog[p].answer # <<>> /\ providerLog[p].answer[1]
        /\ providerLog[q].answer # <<>> /\ ~providerLog[q].answer[1]

----------------------------------------------------------------------------
(* C7 *)

\* C7: once provider.charge has answered success=false, the payment is FAILED, its
\* error is a non-empty string and its completed_at is unset.
C7_FailedChargeHasError ==
    \A id \in DOMAIN payments :
        (id \in DOMAIN providerLog /\ providerLog[id].answer # <<>>
            /\ ~providerLog[id].answer[1])
            => /\ payments[id].status = "failed"
               /\ payments[id].error # None
               /\ payments[id].error # ""
               /\ payments[id].completed_at = None

----------------------------------------------------------------------------
(* C8 *)

\* C8: every stored Refund has the currency of the payment it references and an
\* amount that is at most that payment's amount.
C8_RefundWithinPayment ==
    \A r \in DOMAIN refunds :
        /\ refunds[r].amount.currency = payments[refunds[r].payment_id].amount.currency
        /\ refunds[r].amount.amount <= payments[refunds[r].payment_id].amount.amount

----------------------------------------------------------------------------
(* C9 *)

MethodIdsOf(customer) ==
    {customer.payment_methods[i].id : i \in 1..Len(customer.payment_methods)}

\* C9: every customer's default_payment_method is unset or the id of one of the
\* customer's payment_methods.
C9_DefaultIsOwned ==
    \A c \in DOMAIN customers :
        \/ customers[c].default_payment_method = None
        \/ customers[c].default_payment_method \in MethodIdsOf(customers[c])

\* a customer with two payment methods and a default
C9_Witness ==
    \E c \in DOMAIN customers :
        /\ Len(customers[c].payment_methods) = 2
        /\ customers[c].default_payment_method # None

----------------------------------------------------------------------------
(* C10 *)

\* the add_payment_method calls in flight on a customer
MethodCallsOn(c) ==
    {m \in DOMAIN calls : calls[m].op = "add_payment_method" /\ calls[m].customer_id = c}

\* C10: when no add_payment_method call is in flight on a customer that has payment
\* methods, its default is the id of the first of them; a default once set is never
\* changed; and add_payment_method on an unknown customer returns None and changes
\* no customer.
C10_FirstMethodIsDefault ==
    [][ /\ \A c \in DOMAIN customers' :
              (MethodCallsOn(c)' = {} /\ Len(customers'[c].payment_methods) > 0)
                  => customers'[c].default_payment_method
                        = customers'[c].payment_methods[1].id
        /\ \A c \in DOMAIN customers :
              customers[c].default_payment_method # None
                  => customers'[c].default_payment_method
                        = customers[c].default_payment_method
        /\ (ReturnsAtOnce("add_payment_method") /\ returned'.arg \notin DOMAIN customers)
              => (returned'.ret = None /\ customers' = customers)
      ]_vars

----------------------------------------------------------------------------
(* C11 *)

\* the emission this step adds to the events about x, if it adds one
Emits(x) ==
    /\ x \in DOMAIN events'
    /\ Len(events'[x]) = (IF x \in DOMAIN events THEN Len(events[x]) ELSE 0) + 1

Emitted(x) == events'[x][Len(events'[x])]

\* C11: every emission calls each handler registered for its event once, in the
\* order of registration, whether or not handlers before it raised, and logs the
\* handlers that raised; and the operation that emits has stored its entity, made
\* its transition and returns the entity (or goes on to the provider) all the same.
C11_HandlersIsolated ==
    [][ \A x \in DOMAIN events' :
          Emits(x) =>
            LET e == Emitted(x)
                registered == hooks[e.event]
            IN /\ e.event \in Events
               /\ hooks' = hooks
               /\ Len(e.invoked) = Len(registered)
               /\ \A i \in 1..Len(registered) :
                     /\ e.invoked[i].handler = registered[i].name
                     /\ e.invoked[i].logged = registered[i].raises
               /\ e.event = "payment.created"
                     => x \in DOMAIN payments' /\ x \in DOMAIN calls'
               /\ e.event = "payment.completed"
                     => payments'[x].status = "completed" /\ returned'.ret = x
               /\ e.event = "payment.failed"
                     => payments'[x].status = "failed" /\ returned'.ret = x
               /\ e.event = "refund.created"
                     => x \in DOMAIN refunds' /\ x \in DOMAIN providerLog'
               /\ e.event = "refund.completed"
                     => refunds'[x].status = "completed" /\ returned'.ret = x
               /\ e.event = "subscription.created"
                     => subscriptions'[x].status = "active" /\ returned'.ret = x
               /\ e.event = "subscription.cancelled"
                     => subscriptions'[x].status = "cancelled" /\ returned'.ret = "True"
      ]_vars

\* payment.completed went to two handlers, the first of which raised
C11_Witness ==
    \E x \in DOMAIN payments : \E i \in 1..Len(events[x]) :
        /\ events[x][i].event = "payment.completed"
        /\ Len(events[x][i].invoked) = 2
        /\ events[x][i].invoked[1].logged
        /\ ~events[x][i].invoked[2].logged
        /\ payments[x].status = "completed"

----------------------------------------------------------------------------
(* C12 *)

\* this step is a call of op that returned
Returns(op) == returned' # returned /\ returned'.op = op

\* C12: cancel_subscription of an unknown id returns False and changes no subscription
\* and no event; of a known id it returns True, leaves the subscription CANCELLED
\* with cancelled_at set and emits one subscription.cancelled, also when the
\* subscription was CANCELLED before; every event added about a stored subscription is
\* the subscription.cancelled of one such call; and no step takes a subscription out
\* of CANCELLED or drops it.
C12_Cancel ==
    [][ /\ (Returns("cancel_subscription") /\ returned'.arg \notin DOMAIN subscriptions)
              => /\ returned'.ret = "False"
                 /\ UNCHANGED <<subscriptions, events>>
        /\ (Returns("cancel_subscription") /\ returned'.arg \in DOMAIN subscriptions)
              => /\ returned'.ret = "True"
                 /\ Emits(returned'.arg)
        /\ \A s \in DOMAIN subscriptions :
              events'[s] # events[s]
                  => /\ Emits(s)
                     /\ Emitted(s).event = "subscription.cancelled"
                     /\ events'[s] = Append(events[s], Emitted(s))
                     /\ returned'.op = "cancel_subscription"
                     /\ returned'.arg = s
                     /\ returned'.ret = "True"
                     /\ subscriptions'[s].status = "cancelled"
                     /\ subscriptions'[s].cancelled_at # None
                     /\ \A t \in DOMAIN subscriptions \ {s} : events'[t] = events[t]
        /\ \A s \in DOMAIN subscriptions :
              /\ s \in DOMAIN subscriptions'
              /\ subscriptions[s].status = "cancelled"
                    => subscriptions'[s].status = "cancelled"
      ]_vars

\* a subscription was cancelled twice: two subscription.cancelled events are out
C12_Witness ==
    \E s \in DOMAIN subscriptions :
        /\ NumCancels(s) = 2
        /\ subscriptions[s].status = "cancelled"
        /\ returned.op = "cancel_subscription"
        /\ returned.ret = "True"

----------------------------------------------------------------------------
(* C13 *)

\* C13: create_subscription for an unknown customer or an unknown plan returns None
\* and stores and emits nothing; a step that stores a Subscription stores one, ACTIVE,
\* of the customer and plan passed, both known, with trial_end the time the call read
\* plus trial_days days when the plan's trial_days > 0 and unset when it is 0, emits
\* subscription.created about it once and returns it.
C13_Subscribe ==
    [][ /\ ( /\ Returns("create_subscription")
             /\ \/ returned'.arg \notin DOMAIN customers
                \/ returned'.payment_method_id \notin DOMAIN plans )
              => /\ returned'.ret = None
                 /\ UNCHANGED <<subscriptions, events>>
        /\ Cardinality(DOMAIN subscriptions' \ DOMAIN subscriptions) <= 1
        /\ \A s \in DOMAIN subscriptions' \ DOMAIN subscriptions :
              LET sub == subscriptions'[s]
              IN /\ returned'.op = "create_subscription"
                 /\ returned'.ret = s
                 /\ sub.status = "active"
                 /\ sub.customer_id = returned'.arg
                 /\ sub.customer_id \in DOMAIN customers
                 /\ sub.plan_id = returned'.payment_method_id
                 /\ sub.plan_id \in DOMAIN plans
                 /\ plans[sub.plan_id].trial_days > 0
                       => sub.trial_end = Some(clock + Days(plans[sub.plan_id].trial_days))
                 /\ plans[sub.plan_id].trial_days = 0 => sub.trial_end = Unset
                 /\ s \notin DOMAIN events
                 /\ Len(events'[s]) = 1
                 /\ events'[s][1].event = "subscription.created"
                 /\ \A t \in DOMAIN events : events'[t] = events[t]
      ]_vars

\* a subscription to a plan with a trial was stored after the clock had moved
C13_Witness ==
    \E s \in DOMAIN subscriptions :
        /\ plans[subscriptions[s].plan_id].trial_days = 14
        /\ subscriptions[s].trial_end = Some(15)
        /\ returned.ret = s

----------------------------------------------------------------------------
(* C14 *)

\* C14: a list_payments call returns the stored payments of the customer passed (all
\* the stored payments when none is passed), each once, every one created strictly
\* later than the ones after it, and changes nothing that is stored.
C14_ListPayments ==
    [][ listed' # listed =>
          LET result == listed'.result
              customer_id == listed'.customer_id
              expected == IF customer_id = None THEN DOMAIN payments
                          ELSE {id \in DOMAIN payments :
                                   payments[id].customer_id = customer_id}
          IN /\ {result[i] : i \in 1..Len(result)} = expected
             /\ \A i, j \in 1..Len(result) :
                   i < j => /\ result[i] # result[j]
                            /\ payments[result[i]].created_at
                                  > payments[result[j]].created_at
             /\ UNCHANGED <<customers, payments, refunds, events, providerLog, calls,
                            plans, subscriptions, hooks>>
      ]_vars

----------------------------------------------------------------------------
(* C15 *)

\* the calls in flight that write the status of a payment: the create_payment call
\* that made it and the create_refund calls on it
InFlightOn(p) ==
    {c \in DOMAIN calls :
        \/ calls[c].op = "create_payment" /\ c = p
        \/ calls[c].op = "create_refund" /\ calls[c].payment_id = p}

\* this step is call c writing the status of payment p
WritesPayment(c, p) ==
    \/ /\ calls[c].op = "create_payment"
       /\ c = p
       /\ payments'[p].status # payments[p].status
    \/ /\ calls[c].op = "create_refund"
       /\ calls[c].payment_id = p
       /\ refunds[c].status = "pending"
       /\ refunds'[c].status = "completed"

\* C15: when a call in flight writes the status of a payment, no other call in flight
\* is one that writes the status of that payment; and the status of a refund is
\* written by the call that made it alone, as that call returns.
C15_SingleMutator ==
    [][ /\ \A p \in DOMAIN payments : \A c \in DOMAIN calls :
              WritesPayment(c, p) => InFlightOn(p) = {c}
        /\ \A r \in DOMAIN refunds :
              refunds'[r].status # refunds[r].status
                  => r \in DOMAIN calls /\ r \notin DOMAIN calls'
      ]_vars

----------------------------------------------------------------------------
(* C16 *)

\* a create_payment or create_refund call is suspended in its await of the provider
Awaiting(c) == calls[c].pc \in {"await_charge", "await_refund"}

\* C16: whenever a call is suspended awaiting the provider, or a handler is running,
\* the lock is free, and an operation that inserts a record (create_customer,
\* create_plan) can take its step as long as the model's bound on stored records
\* leaves room for one.
C16_LockFree ==
    (running # None \/ \E c \in DOMAIN calls : Awaiting(c))
        => /\ lock = None
           /\ NumStored < MaxCalls
                 => /\ ENABLED create_customer
                    /\ ENABLED create_plan("monthly", 1, 14)

\* a second payment was stored, and its handlers are running, while the call that
\* made the first is still awaiting its charge
C16_Witness ==
    /\ running # None
    /\ \E c \in DOMAIN calls : c # running /\ Awaiting(c)
    /\ running \in DOMAIN payments

----------------------------------------------------------------------------
(* C17 *)

----------------------------------------------------------------------------
(* C18 *)

\* the refunds of a payment that are COMPLETED
CompletedRefundsOf(p) ==
    {r \in DOMAIN refunds : refunds[r].payment_id = p /\ refunds[r].status = "completed"}

\* the provider.refund calls on a payment that answered success
SucceededRefundsOf(p) ==
    {r \in DOMAIN providerLog :
        /\ providerLog[r].op = "refund"
        /\ providerLog[r].payment_id = p
        /\ providerLog[r].answer = <<TRUE>>}

\* C18: no payment is refunded twice: in every state, for every payment, at most one
\* Refund that references it is COMPLETED and at most one provider.refund call on it
\* has succeeded (so that its completed refunds are one refund at most).
C18_NoDoubleRefund ==
    \A p \in DOMAIN payments :
        /\ Cardinality(CompletedRefundsOf(p)) <= 1
        /\ Cardinality(SucceededRefundsOf(p)) <= 1

----------------------------------------------------------------------------
(* C19 *)

\* C19: every stored Payment's payment_method_id is the id of one of the
\* payment_methods of the payment's customer, and every charge the provider was asked
\* for names a method of the customer it was asked to charge.
C19_MethodIsOwned ==
    /\ \A p \in DOMAIN payments :
          payments[p].payment_method_id
              \in MethodIdsOf(customers[payments[p].customer_id])
    /\ \A x \in DOMAIN providerLog :
          providerLog[x].op = "charge"
              => providerLog[x].payment_method_id
                    \in MethodIdsOf(customers[providerLog[x].customer_id])

----------------------------------------------------------------------------
(* C20 *)

\* C20: a create_refund call that stores a Refund stores it with the amount it was
\* given, whatever that amount is, zero included, and with the payment's full amount
\* when it was given none.
C20_RefundAmountAsGiven ==
    [][ \A r \in DOMAIN refunds' \ DOMAIN refunds :
          refunds'[r].amount.amount
              = IF calls'[r].amount # Unset
                THEN calls'[r].amount[1]
                ELSE payments[refunds'[r].payment_id].amount.amount ]_vars

====
